---- MODULE Spec2Model ----
(***************************************************************************)
(* fitsconcat.py: concatenation of single-channel FITS images into one     *)
(* cube.  make_empty_image writes a header and extends the file to its     *)
(* final size; fill_cube_with_images (sequential) or                       *)
(* fill_cube_with_images_multiprocess (a Pool of insert_channel units)     *)
(* copies the planes of every input into the cube; update_fits_header      *)
(* writes the axis-3 keywords.                                             *)
(*                                                                         *)
(* Arrays are indexed as numpy indexes them: an input has the numpy shape  *)
(* (P, 1, Y, X), i.e. NAXIS1 = X, NAXIS2 = Y; the output array has the     *)
(* numpy shape (NAXIS4, NAXIS3, NAXIS2, NAXIS1) and lies in the file in C  *)
(* order, element k at byte header_size + 4 * k.                           *)
(***************************************************************************)
EXTENDS Integers, Sequences, FiniteSets, TLC

\* ---------------------------------------------------------------- bounds
MaxDim == 2          \* small spatial extents 1..MaxDim
BigDim == 10         \* one large extent, so that a data region nears a block
MaxPlanes == 2       \* nstokes in 1..MaxPlanes
MaxDepth == 3        \* len(imlist) in 1..MaxDepth
Processes == 2       \* worker processes of the Pool
MaxPadDim == 30      \* spatial extents 1..MaxPadDim of the runs of make_empty_image alone

\* ------------------------------------------------------- program constants
block_size == 2880
itemsize == 4

VARIABLES
    imlist,     \* sequence of inputs; imlist[c + 1] is TRUE iff input c can be opened
    imshape,    \* numpy shape <<P, 1, Y, X>> of every input's data array
    nstokes,    \* number of planes copied per input
    mode,       \* "seq": fill_cube_with_images, "mp": fill_cube_with_images_multiprocess
    prior,      \* the output path named a file before the run
    fexists,    \* the output path names a file
    header,     \* the output's header cards: keyword -> value
    fsize,      \* the output's size in bytes
    data,       \* the output's data region as float32 elements, element k -> value
    pc,         \* position of the main process
    seq,        \* loop position [ii, ss] of fill_cube_with_images
    sol,        \* the Pool's units: channel -> [st, ss]
    written,    \* channel -> byte ranges [lo, hi] of the file its unit has stored into
    raised      \* the exception that reached the caller: [stage, chan]

vars == <<imlist, imshape, nstokes, mode, prior, fexists, header, fsize, data, pc, seq,
          sol, written, raised>>

inputs == <<imlist, imshape, nstokes, mode, prior>>

Dims == (1 .. MaxDim) \cup {BigDim}

max_chan == Len(imlist)
Chans == 0 .. (max_chan - 1)
InP == imshape[1]
InY == imshape[3]
InX == imshape[4]

NoError == [stage |-> "none", chan |-> -1]

\* ------------------------------------------------------------ pure helpers
Min(S) == CHOOSE m \in S : \A n \in S : m <= n

\* hdu[0].data[p, 0, y, x] of input c: a value distinct for every coordinate.
InData(c, p, y, x) == 1 + ((c * InP + p) * InY + y) * InX + x

\* np.squeeze(a).shape: every axis of length 1 is removed, wherever it is.
IsNotOne(d) == d # 1
Squeeze(shape) == SelectSeq(shape, IsNotOne)

\* shape[-2:] of a shape tuple.
LastTwo(shape) ==
    IF Len(shape) <= 2 THEN shape ELSE SubSeq(shape, Len(shape) - 1, Len(shape))

\* "xdim, ydim = ..." unpacks exactly two values, else ValueError.
CanUnpack(shape) == Len(LastTwo(Squeeze(shape))) = 2
xdimOf(shape) == LastTwo(Squeeze(shape))[1]
ydimOf(shape) == LastTwo(Squeeze(shape))[2]

\* Mutant: always one more block, also for a whole number of blocks.
PadToBlock_NextBlock(n) == block_size * ((n \div block_size) + 1)

\* block_size * (((data_size - 1) // block_size) + 1)
PadToBlock(n) == block_size * (((n - 1) \div block_size) + 1)

\* header[key] = value
SetCard(h, key, value) ==
    [k \in (DOMAIN h) \cup {key} |-> IF k = key THEN value ELSE h[k]]

\* The header of PrimaryHDU(np.zeros((1,1,1,1), float32)).
DummyHeader ==
    [k \in {"BITPIX", "NAXIS", "NAXIS1", "NAXIS2", "NAXIS3", "NAXIS4"} |->
        IF k = "BITPIX" THEN -32 ELSE IF k = "NAXIS" THEN 4 ELSE 1]

\* len(header.tostring()): the 80-byte cards held here, SIMPLE, EXTEND and END,
\* padded to whole blocks.
HeaderSize(h) == PadToBlock((Cardinality(DOMAIN h) + 3) * 80)

\* Mutant: the axis-3 keywords are written with the dimensions.
SkeletonHeader_Axis3(xdim, ydim, zdim, wdim) ==
    LET h1 == SetCard(DummyHeader, "NAXIS1", xdim)
        h2 == SetCard(h1, "NAXIS2", ydim)
        h3 == SetCard(h2, "NAXIS3", zdim)
        h4 == SetCard(h3, "NAXIS4", wdim)
        h5 == SetCard(h4, "CRPIX1", xdim \div 2)
        h6 == SetCard(h5, "CRPIX2", ydim \div 2)
    IN  SetCard(SetCard(h6, "CRPIX3", 1), "CTYPE3", "FREQ")

\* The header make_empty_image builds: NAXISi = dims[i], CRPIX1, CRPIX2.
SkeletonHeader(xdim, ydim, zdim, wdim) ==
    LET h1 == SetCard(DummyHeader, "NAXIS1", xdim)
        h2 == SetCard(h1, "NAXIS2", ydim)
        h3 == SetCard(h2, "NAXIS3", zdim)
        h4 == SetCard(h3, "NAXIS4", wdim)
        h5 == SetCard(h4, "CRPIX1", xdim \div 2)
    IN  SetCard(h5, "CRPIX2", ydim \div 2)

\* np.product(dims) for the dims a header declares.
NumElems(h) == h["NAXIS1"] * h["NAXIS2"] * h["NAXIS3"] * h["NAXIS4"]

\* The numpy shape of outhdu[0].data.
OutShape(h) == <<h["NAXIS4"], h["NAXIS3"], h["NAXIS2"], h["NAXIS1"]>>

\* Mutant: the depth index does not enter the offset.
ElemIndex_NoDepth(h, p, c, y, x) ==
    ((p * h["NAXIS3"]) * h["NAXIS2"] + y) * h["NAXIS1"] + x

\* Position of outdata[p, c, y, x] in the C-ordered data region.
ElemIndex(h, p, c, y, x) ==
    ((p * h["NAXIS3"] + c) * h["NAXIS2"] + y) * h["NAXIS1"] + x

\* outdata[ss, channo, :, :] = src[ss, 0, :, :] is accepted by numpy when the
\* indices are in range and the source (Y, X) broadcasts to (NAXIS2, NAXIS1).
CanAssign(h, ss, channo) ==
    /\ ss < h["NAXIS4"]
    /\ channo < h["NAXIS3"]
    /\ ss < InP
    /\ InY = h["NAXIS2"] \/ InY = 1
    /\ InX = h["NAXIS1"] \/ InX = 1

\* Mutant: the plane is added to what the slice holds instead of replacing it.
AssignPlane_Accumulate(d, h, ss, channo) ==
    LET n1 == h["NAXIS1"]
        n2 == h["NAXIS2"]
        base == ElemIndex(h, ss, channo, 0, 0)
    IN  [k \in DOMAIN d |->
            IF k >= base /\ k < base + n1 * n2
            THEN LET y == (k - base) \div n1
                     x == (k - base) % n1
                 IN  d[k] + InData(channo, ss, IF InY = 1 THEN 0 ELSE y,
                                               IF InX = 1 THEN 0 ELSE x)
            ELSE d[k]]

\* Mutant: the copy runs one element past the end of the slice.
AssignPlane_Spill(d, h, ss, channo) ==
    LET n1 == h["NAXIS1"]
        n2 == h["NAXIS2"]
        base == ElemIndex(h, ss, channo, 0, 0)
    IN  [k \in DOMAIN d |->
            IF k >= base /\ k < base + n1 * n2 + 1
            THEN LET y == ((k - base) \div n1) % n2
                     x == (k - base) % n1
                 IN  InData(channo, ss, IF InY = 1 THEN 0 ELSE y,
                                        IF InX = 1 THEN 0 ELSE x)
            ELSE d[k]]

\* The data region after outdata[ss, channo, :, :] = src[ss, 0, :, :].
AssignPlane(d, h, ss, channo) ==
    LET n1 == h["NAXIS1"]
        n2 == h["NAXIS2"]
        base == ElemIndex(h, ss, channo, 0, 0)
    IN  [k \in DOMAIN d |->
            IF k >= base /\ k < base + n1 * n2
            THEN LET y == (k - base) \div n1
                     x == (k - base) % n1
                 IN  InData(channo, ss, IF InY = 1 THEN 0 ELSE y,
                                        IF InX = 1 THEN 0 ELSE x)
            ELSE d[k]]

\* First and last byte offset of the file that hold element k of the data region.
ElemFirstByte(h, k) == HeaderSize(h) + itemsize * k
ElemLastByte(h, k) == HeaderSize(h) + itemsize * k + (itemsize - 1)

\* The byte range stored into by outdata[ss, channo, :, :] = ...: the slice is
\* contiguous in the C-ordered region, from its element (0, 0) to its last one.
SliceBytes(h, ss, channo) ==
    [lo |-> ElemFirstByte(h, ElemIndex(h, ss, channo, 0, 0)),
     hi |-> ElemLastByte(h, ElemIndex(h, ss, channo, h["NAXIS2"] - 1, h["NAXIS1"] - 1))]

\* ------------------------------------------------------------------ state
\* A file a previous run may have left at outname: a 1x1x1x1 cube.
PriorData == [k \in {0} |-> -7]
PriorSize == HeaderSize(DummyHeader) + 2 * block_size

Pending == [st |-> "pending", ss |-> 0]
Unsubmitted == [st |-> "unsubmitted", ss |-> 0]

Init ==
    /\ \E n \in 1 .. MaxDepth : imlist \in [1 .. n -> BOOLEAN]
    /\ nstokes \in 1 .. MaxPlanes
    /\ \E y \in Dims, x \in Dims : imshape = <<nstokes, 1, y, x>>
    /\ mode \in {"seq", "mp"}
    /\ prior \in BOOLEAN
    /\ fexists = prior
    /\ header = IF prior THEN DummyHeader ELSE <<>>
    /\ fsize = IF prior THEN PriorSize ELSE 0
    /\ data = IF prior THEN PriorData ELSE <<>>
    /\ pc = "start"
    /\ seq = [ii |-> 0, ss |-> 0]
    /\ sol = [c \in Chans |-> Unsubmitted]
    /\ written = [c \in Chans |-> {}]
    /\ raised = NoError

Fail(stage, chan) ==
    /\ pc' = "error"
    /\ raised' = [stage |-> stage, chan |-> chan]

\* ------------------------------------------------------- make_empty_image
\* Mutant: the output is created before the first input is opened.
MakeEmptyImage_Header_CreateFirst ==
    /\ pc = "start"
    /\ IF ~imlist[1] \/ ~CanUnpack(imshape)
       THEN /\ Fail("make_empty_image", 0)
            /\ fexists' = TRUE
            /\ header' = <<>>
            /\ fsize' = 0
            /\ data' = <<>>
       ELSE /\ header' = SkeletonHeader(xdimOf(imshape), ydimOf(imshape),
                                        max_chan, nstokes)
            /\ fexists' = TRUE
            /\ fsize' = HeaderSize(header')
            /\ data' = <<>>
            /\ pc' = "header_written"
            /\ UNCHANGED raised
    /\ UNCHANGED <<inputs, seq, sol, written>>

\* Mutant: the header is written over the start of the file that is there.
MakeEmptyImage_Header_NoTruncate ==
    /\ pc = "start"
    /\ IF ~imlist[1] \/ ~CanUnpack(imshape)
       THEN /\ Fail("make_empty_image", 0)
            /\ UNCHANGED <<fexists, header, fsize, data>>
       ELSE /\ header' = SkeletonHeader(xdimOf(imshape), ydimOf(imshape),
                                        max_chan, nstokes)
            /\ fexists' = TRUE
            /\ fsize' = IF HeaderSize(header') > fsize
                         THEN HeaderSize(header') ELSE fsize
            /\ data' = data
            /\ pc' = "header_written"
            /\ UNCHANGED raised
    /\ UNCHANGED <<inputs, seq, sol, written>>

\* Lines 21-44: read the first input's shape, build the header, write it
\* (overwrite=True: the file is created anew and holds the header only).
MakeEmptyImage_Header ==
    /\ pc = "start"
    /\ IF ~imlist[1] \/ ~CanUnpack(imshape)
       THEN /\ Fail("make_empty_image", 0)
            /\ UNCHANGED <<fexists, header, fsize, data>>
       ELSE /\ header' = SkeletonHeader(xdimOf(imshape), ydimOf(imshape),
                                        max_chan, nstokes)
            /\ fexists' = TRUE
            /\ fsize' = HeaderSize(header')
            /\ data' = <<>>
            /\ pc' = "header_written"
            /\ UNCHANGED raised
    /\ UNCHANGED <<inputs, seq, sol, written>>

\* Lines 47-58: seek to header_size + data_size - 1 and write one zero byte:
\* the file is extended with zeros, what it held before the seek stays.
MakeEmptyImage_Extend ==
    /\ pc = "header_written"
    /\ LET header_size == HeaderSize(header)
           data_size == PadToBlock(NumElems(header) * itemsize)
       IN  fsize' = IF header_size + data_size > fsize
                    THEN header_size + data_size ELSE fsize
    /\ data' = [k \in 0 .. (NumElems(header) - 1) |->
                    IF k \in DOMAIN data THEN data[k] ELSE 0]
    /\ pc' = "skeleton"
    /\ UNCHANGED <<inputs, fexists, header, seq, sol, written, raised>>

\* ----------------------------------------------------- update_fits_header
\* header[key] = value for the three keys; the file grows only if the header
\* needs another block.
UpdateFitsHeader(naxis3) ==
    /\ header' = SetCard(SetCard(SetCard(header, "CRPIX3", 1), "NAXIS3", naxis3),
                         "CTYPE3", "FREQ")
    /\ fsize' = fsize - HeaderSize(header) + HeaderSize(header')

\* -------------------------------------------------- fill_cube_with_images
\* Line 77-80: open the output for update.
SeqOpen ==
    /\ pc = "skeleton"
    /\ mode = "seq"
    /\ pc' = "seq_fill"
    /\ seq' = [ii |-> 0, ss |-> 0]
    /\ UNCHANGED <<inputs, fexists, header, fsize, data, sol, written, raised>>

SeqNext(ii, ss) ==
    IF ss + 1 < nstokes THEN [ii |-> ii, ss |-> ss + 1] ELSE [ii |-> ii + 1, ss |-> 0]

\* Mutant: a channel that fails is skipped and the loop goes on.
SeqCopyPlane_Continue ==
    /\ pc = "seq_fill"
    /\ seq.ii < max_chan
    /\ IF (seq.ss = 0 /\ ~imlist[seq.ii + 1]) \/ ~CanAssign(header, seq.ss, seq.ii)
       THEN /\ seq' = [ii |-> seq.ii + 1, ss |-> 0]
            /\ UNCHANGED <<data, written, pc, raised>>
       ELSE /\ data' = AssignPlane(data, header, seq.ss, seq.ii)
            /\ written' = [written EXCEPT ![seq.ii] =
                              @ \cup {SliceBytes(header, seq.ss, seq.ii)}]
            /\ seq' = SeqNext(seq.ii, seq.ss)
            /\ UNCHANGED <<pc, raised>>
    /\ UNCHANGED <<inputs, fexists, header, fsize, sol>>

\* Lines 81-85: one plane of channel ii (the input is opened before plane 0).
SeqCopyPlane ==
    /\ pc = "seq_fill"
    /\ seq.ii < max_chan
    /\ IF (seq.ss = 0 /\ ~imlist[seq.ii + 1]) \/ ~CanAssign(header, seq.ss, seq.ii)
       THEN /\ Fail("fill", seq.ii)
            /\ UNCHANGED <<data, written, seq>>
       ELSE /\ data' = AssignPlane(data, header, seq.ss, seq.ii)
            /\ written' = [written EXCEPT ![seq.ii] =
                              @ \cup {SliceBytes(header, seq.ss, seq.ii)}]
            /\ seq' = SeqNext(seq.ii, seq.ss)
            /\ UNCHANGED <<pc, raised>>
    /\ UNCHANGED <<inputs, fexists, header, fsize, sol>>

\* Line 87: outhdu.close().
SeqClose ==
    /\ pc = "seq_fill"
    /\ seq.ii = max_chan
    /\ pc' = "seq_closed"
    /\ UNCHANGED <<inputs, fexists, header, fsize, data, seq, sol, written, raised>>

\* Line 88: highest_channel = int(outdata.shape[1] + 1).
highest_channel == OutShape(header)[2] + 1

\* Lines 88-95.
SeqFinalize ==
    /\ pc = "seq_closed"
    /\ UpdateFitsHeader(highest_channel)
    /\ pc' = "done"
    /\ UNCHANGED <<inputs, fexists, data, seq, sol, written, raised>>

\* ----------------------------------------- fill_cube_with_images_multiprocess
Running == { c \in Chans : sol[c].st = "running" }
Failed == { c \in Chans : sol[c].st = "failed" }

\* Lines 120-126: one apply_async per channel, then pool.close().
Submit ==
    /\ pc = "skeleton"
    /\ mode = "mp"
    /\ sol' = [c \in Chans |-> Pending]
    /\ pc' = "pool"
    /\ UNCHANGED <<inputs, fexists, header, fsize, data, seq, written, raised>>

\* A free worker process takes a queued unit.
WorkerFree == Cardinality(Running) < Processes

\* insert_channel, lines 100-104: open the output, open the input.
InsertChannel_Open(channo) ==
    /\ pc = "pool"
    /\ sol[channo].st = "pending"
    /\ WorkerFree
    /\ sol' = [sol EXCEPT ![channo] =
                 IF imlist[channo + 1] THEN [st |-> "running", ss |-> 0]
                 ELSE [st |-> "failed", ss |-> 0]]
    /\ UNCHANGED <<inputs, fexists, header, fsize, data, pc, seq, written, raised>>

\* insert_channel, lines 105-106: one plane.
InsertChannel_CopyPlane(channo) ==
    /\ sol[channo].st = "running"
    /\ sol[channo].ss < nstokes
    /\ IF CanAssign(header, sol[channo].ss, channo)
       THEN /\ data' = AssignPlane(data, header, sol[channo].ss, channo)
            /\ written' = [written EXCEPT ![channo] =
                              @ \cup {SliceBytes(header, sol[channo].ss, channo)}]
            /\ sol' = [sol EXCEPT ![channo].ss = @ + 1]
       ELSE /\ sol' = [sol EXCEPT ![channo].st = "failed"]
            /\ UNCHANGED <<data, written>>
    /\ UNCHANGED <<inputs, fexists, header, fsize, pc, seq, raised>>

\* Mutant: close() writes back the unit's own copy of the whole array, which
\* holds zeros outside the unit's channel.
InsertChannel_Close_WriteBack(channo) ==
    /\ sol[channo].st = "running"
    /\ sol[channo].ss = nstokes
    /\ sol' = [sol EXCEPT ![channo].st = "done"]
    /\ data' = [k \in DOMAIN data |->
                  IF (k \div (header["NAXIS1"] * header["NAXIS2"])) % header["NAXIS3"]
                         = channo
                  THEN data[k] ELSE 0]
    /\ UNCHANGED <<inputs, fexists, header, fsize, pc, seq, written, raised>>

\* insert_channel, line 108: outhdu.close().
InsertChannel_Close(channo) ==
    /\ sol[channo].st = "running"
    /\ sol[channo].ss = nstokes
    /\ sol' = [sol EXCEPT ![channo].st = "done"]
    /\ UNCHANGED <<inputs, fexists, header, fsize, data, pc, seq, written, raised>>

\* Mutant: join() does not wait.
PoolDrained_NoWait == TRUE

\* Mutant: join() returns as soon as one unit has failed.
PoolDrained_OnFailure ==
    \/ \A c \in Chans : sol[c].st \in {"done", "failed"}
    \/ \E c \in Chans : sol[c].st = "failed"

\* pool.join() returns when every submitted unit has ended.
PoolDrained == \A c \in Chans : sol[c].st \in {"done", "failed"}

\* Line 127.
Join ==
    /\ pc = "pool"
    /\ PoolDrained
    /\ pc' = "joined"
    /\ UNCHANGED <<inputs, fexists, header, fsize, data, seq, sol, written, raised>>

\* The unit whose exception "for s in sol: s.get()" re-raises.
FirstFailed == Min(Failed)

\* Mutant: the results are never asked for (join and ignore).
Collect_Ignore ==
    /\ pc = "joined"
    /\ pc' = "collected"
    /\ UNCHANGED <<inputs, fexists, header, fsize, data, seq, sol, written, raised>>

\* Lines 130-131.
Collect ==
    /\ pc = "joined"
    /\ IF Failed # {}
       THEN Fail("fill", FirstFailed)
       ELSE pc' = "collected" /\ UNCHANGED raised
    /\ UNCHANGED <<inputs, fexists, header, fsize, data, seq, sol, written>>

\* Lines 133-139.
MpFinalize ==
    /\ pc = "collected"
    /\ UpdateFitsHeader(max_chan)
    /\ pc' = "done"
    /\ UNCHANGED <<inputs, fexists, data, seq, sol, written, raised>>

Next ==
    \/ MakeEmptyImage_Header
    \/ MakeEmptyImage_Extend
    \/ SeqOpen
    \/ SeqCopyPlane
    \/ SeqClose
    \/ SeqFinalize
    \/ Submit
    \/ \E c \in Chans : InsertChannel_Open(c)
    \/ \E c \in Chans : InsertChannel_CopyPlane(c)
    \/ \E c \in Chans : InsertChannel_Close(c)
    \/ Join
    \/ Collect
    \/ MpFinalize

Spec == Init /\ [][Next]_vars

\* ================================================================ claims
Planes == 0 .. (nstokes - 1)
AllReadable == \A c \in Chans : imlist[c + 1]
Terminated == pc \in {"done", "error"}
Planned == pc \notin {"start", "header_written"} /\ raised.stage # "make_empty_image"
HasCard(key) == key \in DOMAIN header

\* Input c's element (p, 0, y, x) is stored at the output's (p, c, y, x).
ChannelStored(c) ==
    \A p \in Planes, y \in 0 .. (InY - 1), x \in 0 .. (InX - 1) :
        LET k == ElemIndex(header, p, c, y, x)
        IN  k \in DOMAIN data /\ data[k] = InData(c, p, y, x)

\* C1: with every input readable, make_empty_image followed by a fill ends
\* finalized for every shape (X, Y), and the output element (p, i, y, x) then
\* equals element (p, 0, y, x) of input i.
C1_RoundTrip ==
    (Terminated /\ AllReadable) =>
        (pc = "done" /\ \A c \in Chans : ChannelStored(c))

\* C2: when the first input can be opened, make_empty_image returns for every
\* X, Y >= 1 and leaves a file of exactly
\* headerSize + ceil(X*Y*Depth*Planes*4 / 2880) * 2880 bytes.
C2_SkeletonSizing ==
    imlist[1] =>
        /\ raised.stage # "make_empty_image"
        /\ pc = "skeleton" =>
              /\ fexists
              /\ fsize = HeaderSize(header)
                         + PadToBlock(InX * InY * max_chan * nstokes * itemsize)

\* C3: after a complete fill in either mode the header has CRPIX3 = 1,
\* CTYPE3 = FREQ and NAXIS3 = number of input images.
C3_DepthAxisFinalized ==
    pc = "done" =>
        /\ HasCard("CRPIX3") /\ header["CRPIX3"] = 1
        /\ HasCard("CTYPE3") /\ header["CTYPE3"] = "FREQ"
        /\ header["NAXIS3"] = max_chan

\* Two byte ranges share no offset.
NoCommonByte(r, t) == r.hi < t.lo \/ t.hi < r.lo

\* C4: for distinct depth indices i, j the byte offsets stored into by
\* insert_channel(i) and by insert_channel(j) are disjoint: those the units
\* have stored into so far, and, for the header make_empty_image wrote, those
\* of every pair of their plane slices.
C4_Disjoint ==
    \A i \in Chans, j \in Chans :
        i # j =>
            /\ \A r \in written[i], t \in written[j] : NoCommonByte(r, t)
            /\ pc = "skeleton" =>
                  \A p \in Planes, q \in Planes :
                      NoCommonByte(SliceBytes(header, p, i), SliceBytes(header, q, j))

C4_Witness ==
    /\ mode = "mp"
    /\ \E i \in Chans, j \in Chans :
          /\ i # j
          /\ sol[i].st = "running" /\ sol[j].st = "running"
          /\ written[i] # {} /\ written[j] # {}

\* The data region after insert_channel(c) has run alone on region d.
RECURSIVE InsertChannelFrom(_, _, _)
InsertChannelFrom(d, c, ss) ==
    IF ss >= nstokes \/ ~imlist[c + 1] \/ ~CanAssign(header, ss, c) THEN d
    ELSE InsertChannelFrom(AssignPlane(d, header, ss, c), c, ss + 1)

\* The data region after insert_channel(c), ..., insert_channel(N-1) have run
\* one after the other on region d.
RECURSIVE FillFrom(_, _)
FillFrom(d, c) ==
    IF c >= max_chan THEN d ELSE FillFrom(InsertChannelFrom(d, c, 0), c + 1)

ZeroData == [k \in DOMAIN data |-> 0]

\* C5: once the pool has drained, whatever the interleaving of the units was,
\* the data region is the one that running the units one after the other in
\* the order 0..N-1 on the zero-filled skeleton produces.
C5_OrderIndependent ==
    (mode = "mp" /\ pc \in {"joined", "collected", "done", "error"} /\ Planned) =>
        data = FillFrom(ZeroData, 0)

C5_Witness ==
    /\ mode = "mp"
    /\ pc = "joined"
    /\ max_chan >= 2
    /\ \A c \in Chans : sol[c].st = "done"
    /\ data # ZeroData

\* C6: a fill unit that is submitted and has not ended exists only while the
\* main process waits in pool.join(): make_empty_image has returned before any
\* unit starts or stores anything, and the header is finalized only after
\* every unit has ended.
C6_StageOrdering ==
    /\ (\E c \in Chans : sol[c].st \in {"pending", "running"}) => pc = "pool"
    /\ pc \in {"start", "header_written"} =>
          \A c \in Chans : sol[c].st = "unsubmitted" /\ written[c] = {}
    /\ (mode = "mp" /\ pc \in {"collected", "done"}) =>
          \A c \in Chans : sol[c].st = "done"
    /\ (mode = "seq" /\ pc \in {"seq_closed", "done"}) => seq.ii = max_chan

C6_Witness ==
    /\ mode = "mp"
    /\ pc = "done"
    /\ max_chan >= 2
    /\ \A c \in Chans : sol[c].st = "done" /\ written[c] # {}

\* States from the return of make_empty_image up to the finalization step.
Unfinalized ==
    pc \in {"skeleton", "seq_fill", "seq_closed", "pool", "joined", "collected"}

\* Every unit has ended without error and the header is not yet finalized.
FilledUnfinalized == pc \in {"seq_closed", "collected"}

\* C7 as stated: from make_empty_image up to the finalization step CRPIX3 and
\* CTYPE3 are absent and NAXIS3 is absent or at the default of the dummy HDU.
C7_HeaderTiming_Original ==
    Unfinalized =>
        /\ ~HasCard("CRPIX3")
        /\ ~HasCard("CTYPE3")
        /\ ~HasCard("NAXIS3") \/ header["NAXIS3"] = DummyHeader["NAXIS3"]

\* C7 amended: from make_empty_image up to the finalization step CRPIX3 and
\* CTYPE3 are absent while NAXIS3 already holds the number of inputs; when
\* every unit has ended without error the pixel data is complete with the
\* header still unfinalized; CRPIX3 and CTYPE3 appear with the finalization
\* step only.
C7_HeaderTiming ==
    /\ Unfinalized =>
          /\ ~HasCard("CRPIX3")
          /\ ~HasCard("CTYPE3")
          /\ header["NAXIS3"] = max_chan
    /\ FilledUnfinalized => \A c \in Chans : ChannelStored(c)
    /\ (HasCard("CRPIX3") \/ HasCard("CTYPE3")) =>
          /\ pc = "done"
          /\ header["CRPIX3"] = 1
          /\ header["CTYPE3"] = "FREQ"

C7_Witness ==
    /\ FilledUnfinalized
    /\ max_chan >= 2
    /\ ~HasCard("CRPIX3")
    /\ \A c \in Chans : written[c] # {}

\* The size make_empty_image gave the file.
SkeletonSize ==
    HeaderSize(SkeletonHeader(xdimOf(imshape), ydimOf(imshape), max_chan, nstokes))
    + PadToBlock(xdimOf(imshape) * ydimOf(imshape) * max_chan * nstokes * itemsize)

\* C8: in every state after make_empty_image has returned the file has the
\* size make_empty_image gave it, and that size is the one the header's
\* dimensions declare: header plus the padded NAXIS1*NAXIS2*NAXIS3*NAXIS4
\* elements.
C8_FileSize ==
    Planned =>
        /\ fsize = SkeletonSize
        /\ fsize = HeaderSize(header) + PadToBlock(NumElems(header) * itemsize)

\* The depth indices the error raised to the caller reports.
Reported == {raised.chan}

\* C9: when units fail in the concurrent mode, the error raised reports the
\* complete set of depth indices that failed.
C9_FailureAggregation ==
    (mode = "mp" /\ pc = "error" /\ raised.stage = "fill") => Reported = Failed

\* C10: in the concurrent mode an error of the fill is raised only after every
\* submitted unit has ended; every unit that did not fail itself has run to
\* completion and stored its region; the error is that of a failed unit (the
\* first in submission order), and a failure is always raised.
C10_NoEarlyCancel ==
    /\ (mode = "mp" /\ pc = "error" /\ raised.stage = "fill") =>
          /\ \A c \in Chans : sol[c].st \in {"done", "failed"}
          /\ \A c \in Chans : sol[c].st = "done" =>
                /\ written[c] = { SliceBytes(header, p, c) : p \in Planes }
                /\ ChannelStored(c)
          /\ raised.chan \in Failed
          /\ \A c \in Failed : raised.chan <= c
    /\ (mode = "mp" /\ pc \in {"collected", "done"}) => Failed = {}

C10_Witness ==
    /\ mode = "mp"
    /\ pc = "error"
    /\ raised.stage = "fill"
    /\ \E c \in Chans : sol[c].st = "done" /\ c > raised.chan /\ written[c] # {}

\* C11: on every output state, insert_channel(i) run twice in succession with
\* the same input leaves the data region it leaves when run once; in
\* particular a unit that has ended would change nothing if run again.
C11_RefillIdempotent ==
    Planned =>
        \A c \in Chans :
            LET once == InsertChannelFrom(data, c, 0)
            IN  /\ InsertChannelFrom(once, c, 0) = once
                /\ sol[c].st = "done" => once = data

C11_Witness ==
    /\ pc = "pool"
    /\ \E c \in Chans, e \in Chans :
          /\ c # e
          /\ sol[c].st = "done"
          /\ sol[e].st = "running" /\ sol[e].ss = 1
          /\ InsertChannelFrom(data, c, 0) = data
          /\ InsertChannelFrom(data, e, 0) # data

DepthOf(k) == (k \div (header["NAXIS1"] * header["NAXIS2"])) % header["NAXIS3"]

\* A step of the unit insert_channel(c).
UnitStep(c) == sol'[c] # sol[c] /\ pc = "pool"

\* C13: a step of insert_channel(i) changes no header card and no size, adds or
\* removes no element, stores only inside the declared data region (never in
\* the header or the padding) and changes no element whose depth index is not
\* i; the byte ranges of the other units are as before.
C13_FillFrame ==
    [][\A c \in Chans :
          UnitStep(c) =>
              /\ header' = header
              /\ fsize' = fsize
              /\ fexists' = fexists
              /\ DOMAIN data' = DOMAIN data
              /\ \A k \in DOMAIN data : DepthOf(k) # c => data'[k] = data[k]
              /\ \A e \in Chans : e # c => written'[e] = written[e]
              /\ \A r \in written'[c] :
                    /\ r.lo >= HeaderSize(header)
                    /\ r.hi < HeaderSize(header) + itemsize * NumElems(header)
       ]_vars

C13_Witness ==
    /\ pc = "pool"
    /\ max_chan >= 2
    /\ sol[1].st = "done"
    /\ written[1] # {}
    /\ sol[0].st = "done"
    /\ \E k \in DOMAIN data : DepthOf(k) = 0 /\ data[k] # 0

\* The header make_empty_image wrote for the inputs of this run.
WrittenHeader ==
    SkeletonHeader(xdimOf(imshape), ydimOf(imshape), max_chan, nstokes)

\* The unit of channel c has stored every one of its planes.
FullyWritten(c) ==
    /\ imlist[c + 1]
    /\ written[c] = { SliceBytes(WrittenHeader, p, c) : p \in Planes }

\* C14: in both modes the axis-3 cards are in the header only if every depth
\* index was filled without error, the finalization is reached only then, and
\* a run in which a fill unit failed ends in an error with the header as
\* make_empty_image wrote it.
C14_FinalizeOnlyOnSuccess ==
    /\ (HasCard("CRPIX3") \/ HasCard("CTYPE3")) =>
          (pc = "done" /\ \A c \in Chans : FullyWritten(c))
    /\ pc \in {"seq_closed", "collected", "done"} =>
          (Failed = {} /\ \A c \in Chans : FullyWritten(c))
    /\ (pc = "error" /\ raised.stage = "fill") =>
          (header = WrittenHeader /\ ~FullyWritten(raised.chan))

C14_Witness ==
    /\ mode = "mp"
    /\ pc = "error"
    /\ raised.stage = "fill"
    /\ header = WrittenHeader
    /\ \E c \in Chans : FullyWritten(c)

\* C15: in the concurrent mode with every input readable there is exactly one
\* unit per depth index, no unit fails, the run does not end in an error, and
\* the finalized state has every depth index filled.
C15_Completion ==
    (mode = "mp" /\ AllReadable /\ Planned) =>
        /\ DOMAIN sol = Chans
        /\ Failed = {}
        /\ pc # "error"
        /\ pc = "done" => \A c \in Chans : sol[c].st = "done" /\ FullyWritten(c)

\* The whole program on inputs of the small spatial extents only.
SmallInit ==
    /\ Init
    /\ InY <= MaxDim
    /\ InX <= MaxDim

SmallSpec == SmallInit /\ [][Next]_vars

\* make_empty_image alone, on first inputs of spatial extents up to MaxPadDim.
PadInit ==
    /\ \E n \in 1 .. MaxDepth : imlist = [c \in 1 .. n |-> TRUE]
    /\ nstokes \in 1 .. MaxPlanes
    /\ \E y \in 1 .. MaxPadDim, x \in 1 .. MaxPadDim : imshape = <<nstokes, 1, y, x>>
    /\ mode = "mp"
    /\ prior = FALSE
    /\ fexists = FALSE
    /\ header = <<>>
    /\ fsize = 0
    /\ data = <<>>
    /\ pc = "start"
    /\ seq = [ii |-> 0, ss |-> 0]
    /\ sol = [c \in Chans |-> Unsubmitted]
    /\ written = [c \in Chans |-> {}]
    /\ raised = NoError

PadNext ==
    \/ MakeEmptyImage_Header
    \/ MakeEmptyImage_Extend

PadSpec == PadInit /\ [][PadNext]_vars

\* The raw and the padded size of the data region of a skeleton.
RawSize == NumElems(header) * itemsize
PaddedSize == fsize - HeaderSize(header)

\* C16: the padded data size make_empty_image gives the file is the smallest
\* multiple of 2880 that is >= the raw size n >= 1; a raw size that is a
\* multiple of 2880 is not increased.
C16_Padding ==
    pc = "skeleton" =>
        /\ RawSize >= 1
        /\ PaddedSize % block_size = 0
        /\ PaddedSize >= RawSize
        /\ PaddedSize - block_size < RawSize
        /\ RawSize % block_size = 0 => PaddedSize = RawSize

C16_Witness ==
    /\ pc = "skeleton"
    /\ RawSize = 2 * block_size
    /\ PaddedSize = RawSize

\* C17: whether or not the output path named a file before, the file
\* make_empty_image returns holds the newly built header followed by an
\* all-zero data region of the computed size, and no byte of a prior file.
C17_OverwriteZeroFill ==
    pc = "skeleton" =>
        /\ fexists
        /\ header = WrittenHeader
        /\ DOMAIN data = 0 .. (NumElems(header) - 1)
        /\ \A k \in DOMAIN data : data[k] = 0
        /\ fsize = HeaderSize(header) + PadToBlock(NumElems(header) * itemsize)

C17_Witness ==
    /\ pc = "skeleton"
    /\ prior
    /\ fsize < PriorSize
    /\ data[0] = 0

\* C18: after make_empty_image the header has NAXIS1..NAXIS4 = (X, Y, Depth,
\* Planes) with Depth = len(imlist) and Planes = nstokes, CRPIX1 = X \div 2
\* and CRPIX2 = Y \div 2, X and Y being the extents of the first input's
\* fastest and second fastest axis; make_empty_image produces it for every
\* X, Y, Depth, Planes >= 1 when the first input can be opened.
C18_SkeletonHeaderFields ==
    /\ (imlist[1] /\ pc = "error") => raised.stage # "make_empty_image"
    /\ pc = "skeleton" =>
          /\ header["NAXIS1"] = InX
          /\ header["NAXIS2"] = InY
          /\ header["NAXIS3"] = Len(imlist)
          /\ header["NAXIS4"] = nstokes
          /\ header["CRPIX1"] = InX \div 2
          /\ header["CRPIX2"] = InY \div 2

\* C19: fill_cube_with_images takes the depth indices in ascending order (an
\* index has bytes stored only when it is the loop's index or below it, and
\* then every lower index is complete); when the unit of index k fails the
\* error reaches the caller, the loop stops at k, and every index above k
\* has nothing stored and keeps the skeleton's zeros.
C19_SequentialOrderAbort ==
    mode = "seq" =>
        /\ \A c \in Chans :
              written[c] # {} =>
                  /\ c <= seq.ii
                  /\ \A e \in Chans : e < c => FullyWritten(e)
        /\ \A c \in Chans : c < seq.ii => FullyWritten(c)
        /\ (pc = "error" /\ raised.stage = "fill") =>
              /\ raised.chan = seq.ii
              /\ ~FullyWritten(raised.chan)
              /\ \A c \in Chans : c > raised.chan => written[c] = {}
              /\ \A k \in DOMAIN data : DepthOf(k) > raised.chan => data[k] = 0
        /\ (Planned /\ \E c \in Chans : ~imlist[c + 1]) =>
              pc \notin {"seq_closed", "done"}

C19_Witness ==
    /\ mode = "seq"
    /\ pc = "error"
    /\ raised = [stage |-> "fill", chan |-> 1]
    /\ max_chan = 3
    /\ imlist[3]
    /\ FullyWritten(0)
    /\ written[2] = {}

\* The output path is as it was before the run.
OutputAsBefore ==
    /\ fexists = prior
    /\ header = IF prior THEN DummyHeader ELSE <<>>
    /\ fsize = IF prior THEN PriorSize ELSE 0
    /\ data = IF prior THEN PriorData ELSE <<>>

\* C20: when the first input cannot be opened, make_empty_image fails before
\* writing anything: the output path is exactly as it was (a prior file is
\* kept, no skeleton is created) and no fill unit is ever started.
C20_PlannerFailureUntouched ==
    ~imlist[1] =>
        /\ OutputAsBefore
        /\ pc \in {"start", "error"}
        /\ pc = "error" => raised = [stage |-> "make_empty_image", chan |-> 0]
        /\ seq = [ii |-> 0, ss |-> 0]
        /\ \A c \in Chans : sol[c] = Unsubmitted /\ written[c] = {}

C20_Witness ==
    /\ ~imlist[1]
    /\ pc = "error"
    /\ prior
    /\ header = DummyHeader
    /\ data = PriorData

====
